---- MODULE Spec2Model ----
(***************************************************************************)
(* NSE watchlist dashboard: the watchlist table (database.py), the        *)
(* evaluation cycle of display_watchlist (app.py) and the e-mail gate      *)
(* check_email_notifications (email_utils.py).                             *)
(*                                                                         *)
(* Prices are whole rupees.  On the prices and targets used here the       *)
(* float expressions of the code (the comparisons, the percentage of       *)
(* app.py:77 against -1 and 1, the "%.2f" formatting) give what the        *)
(* integer arithmetic below gives.                                         *)
(***************************************************************************)
EXTENDS Integers, Sequences, FiniteSets, TLC

VARIABLES
    watchlists,                 \* table "watchlists" (database.py:14-23), in insertion order
    notification_logs,          \* table "notification_logs" (database.py:25-35)
    email_notifications_sent,   \* st.session_state.email_notifications_sent (email_utils.py:113-114)
    hour,                       \* datetime.now() truncated to the hour (email_utils.py:119)
    watchlist_data,             \* rows built by the last display_watchlist / read by the gate
    cycle,                      \* what the last evaluation cycle was called with and did
    outbox,                     \* history: every call of send_email_notification
    last_op,                    \* the (success, message) result of the last store operation
    adders,                     \* concurrent add_stock_to_db calls in flight (two sessions)
    backup,                     \* what the last export returned, and a store restored from it
    stats                       \* st.cache_data entry of get_watchlist_stats and what it last returned

vars == << watchlists, notification_logs, email_notifications_sent, hour,
           watchlist_data, cycle, outbox, last_op, adders, backup, stats >>

----------------------------------------------------------------------------
(* Bounds of the model *)

MaxRows == 2        \* rows the watchlists table may hold
MaxImport == 2      \* records in an uploaded backup file
MaxHour == 1        \* hour buckets after the first one
MaxOutbox == 2      \* recorded calls of send_email_notification
MaxGateRows == 1    \* rows handed to check_email_notifications when it is driven directly

(* Inputs *)

NaN == -999999         \* the float nan pandas gives an empty CSV cell

Symbols == {"tcs", "TCS", "TCS.NS"}         \* what a user types into the symbol box
WatchlistTypes == {"buy", "sell"}
Targets == {100, 200}                        \* target prices entered in the form (min_value 0.01)
Prices == {99, 100, 101, 201, 203}           \* last closes the price source may return
Recipients == {"", "user@example.com"}       \* the sidebar's e-mail box, possibly cleared
Sessions == {1, 2}                           \* browser sessions sharing the database
BackupSymbols == {"TCS", "NA"}               \* symbols in a store that is exported

(* Text that pd.read_csv reads as a missing value (some of its default     *)
(* na_values), and the float nan it puts in the cell                       *)
NaStrings == {"NA", "NULL", "N/A"}
NanCell == "float nan"

(* get_nse_stock_data: (None, None, None) or a last close *)
NoData == [ok |-> FALSE, current_price |-> 0]
Fetches == {NoData} \cup {[ok |-> TRUE, current_price |-> p] : p \in Prices}

(* str.upper() on the symbols above *)
Upper(s) == IF s = "tcs" THEN "TCS" ELSE s

(* String literals of the source.  The two files spell the rupee sign and  *)
(* the fire emoji with different code points.                              *)
RUPEE == "U+20B9"                                        \* app.py:104
GATE_RUPEE == "U+201A U+00C7 U+03C0"                      \* email_utils.py:124
STATUS_REACHED == "U+1F3AF TARGET REACHED"
STATUS_CLOSE == "U+1F525 CLOSE TO TARGET"               \* app.py:85
STATUS_WAITING == "U+23F3 WAITING"
STATUS_ERROR == "U+274C ERROR"
GATE_CLOSE == "U+F8FF U+00FC U+00EE U+2022 CLOSE TO TARGET"   \* email_utils.py:117

----------------------------------------------------------------------------
(* Sequence helpers *)

RECURSIVE SeqsUpTo(_, _)
SeqsUpTo(S, n) ==
    IF n = 0 THEN {<< >>}
    ELSE LET shorter == SeqsUpTo(S, n - 1)
         IN shorter \cup {Append(s, x) : s \in {t \in shorter : Len(t) = n - 1}, x \in S}

Abs(x) == IF x < 0 THEN -x ELSE x

----------------------------------------------------------------------------
(* database.py: the watchlists table *)

NewStock(table, symbol, target_price, watchlist_type) ==
    [id |-> Len(table) + 1,
     symbol |-> Upper(symbol),
     target_price |-> target_price,
     watchlist_type |-> watchlist_type,
     added_date |-> Len(table) + 1,      \* datetime.utcnow at insert: later rows are later
     is_active |-> TRUE]

(* the query of add_stock_to_db, lines 63-68 *)
AddExistingAsGiven(table, symbol, watchlist_type) ==
    \E i \in DOMAIN table :
        /\ table[i].symbol = symbol
        /\ table[i].watchlist_type = watchlist_type
        /\ table[i].is_active

AddExisting(table, symbol, watchlist_type) ==
    \E i \in DOMAIN table :
        /\ table[i].symbol = Upper(symbol)
        /\ table[i].watchlist_type = watchlist_type
        /\ table[i].is_active

add_stock_to_dbUpsert(table, symbol, target_price, watchlist_type) ==
    IF symbol = NanCell
    THEN [table |-> table, success |-> FALSE, message |-> "Error adding stock"]
    ELSE IF AddExisting(table, symbol, watchlist_type)
    THEN [table |-> [i \in DOMAIN table |->
                        IF /\ table[i].symbol = Upper(symbol)
                           /\ table[i].watchlist_type = watchlist_type
                           /\ table[i].is_active
                        THEN [table[i] EXCEPT !.target_price = target_price]
                        ELSE table[i]],
          success |-> FALSE, message |-> "already exists"]
    ELSE [table |-> Append(table, NewStock(table, symbol, target_price, watchlist_type)),
          success |-> TRUE, message |-> "Added"]

(* add_stock_to_db as a function of the table: the new table and the       *)
(* (success, message) it returns.                                          *)
add_stock_to_db(table, symbol, target_price, watchlist_type) ==
    IF symbol = NanCell       \* symbol.upper() raises AttributeError, caught at lines 87-89
    THEN [table |-> table, success |-> FALSE, message |-> "Error adding stock"]
    ELSE IF AddExisting(table, symbol, watchlist_type)
    THEN [table |-> table, success |-> FALSE, message |-> "already exists"]
    ELSE [table |-> Append(table, NewStock(table, symbol, target_price, watchlist_type)),
          success |-> TRUE, message |-> "Added"]

(* the query of remove_stock_from_db, lines 128-133: the symbol as given *)
RemoveMatches(table, symbol, watchlist_type) ==
    {i \in DOMAIN table :
        /\ table[i].symbol = symbol
        /\ table[i].watchlist_type = watchlist_type
        /\ table[i].is_active}

remove_stock_from_dbHardDelete(table, symbol, watchlist_type) ==
    LET found == RemoveMatches(table, symbol, watchlist_type)
    IN IF found # {}
       THEN LET i == CHOOSE j \in found : \A k \in found : j <= k
            IN [table |-> SubSeq(table, 1, i - 1) \o SubSeq(table, i + 1, Len(table)),
                success |-> TRUE, message |-> "Removed"]
       ELSE [table |-> table, success |-> FALSE, message |-> "not found"]

remove_stock_from_dbUncommitted(table, symbol, watchlist_type) ==
    IF RemoveMatches(table, symbol, watchlist_type) # {}
    THEN [table |-> table, success |-> TRUE, message |-> "Removed"]
    ELSE [table |-> table, success |-> FALSE, message |-> "not found"]

remove_stock_from_db(table, symbol, watchlist_type) ==
    LET found == RemoveMatches(table, symbol, watchlist_type)
    IN IF found # {}
       THEN LET i == CHOOSE j \in found : \A k \in found : j <= k     \* .first()
            IN [table |-> [table EXCEPT ![i].is_active = FALSE],
                success |-> TRUE, message |-> "Removed"]
       ELSE [table |-> table, success |-> FALSE, message |-> "not found"]

RECURSIVE OrderByAddedDateAsc(_, _)
OrderByAddedDateAsc(table, idx) ==
    IF idx = {} THEN << >>
    ELSE LET first == CHOOSE i \in idx :
                        \A j \in idx :
                            \/ table[i].added_date < table[j].added_date
                            \/ (table[i].added_date = table[j].added_date /\ i <= j)
         IN << first >> \o OrderByAddedDateAsc(table, idx \ {first})

(* ORDER BY added_date DESC over a set of row indices *)
RECURSIVE OrderByAddedDateDesc(_, _)
OrderByAddedDateDesc(table, idx) ==
    IF idx = {} THEN << >>
    ELSE LET first == CHOOSE i \in idx :
                        \A j \in idx :
                            \/ table[i].added_date > table[j].added_date
                            \/ (table[i].added_date = table[j].added_date /\ i <= j)
         IN << first >> \o OrderByAddedDateDesc(table, idx \ {first})

(* get_watchlist_from_db: the dicts of the active rows of one type, newest first *)
get_watchlist_from_db(table, watchlist_type) ==
    LET idx == {i \in DOMAIN table :
                    table[i].watchlist_type = watchlist_type /\ table[i].is_active}
        order == OrderByAddedDateDesc(table, idx)
    IN [k \in DOMAIN order |->
            [id |-> table[order[k]].id,
             symbol |-> table[order[k]].symbol,
             target_price |-> table[order[k]].target_price,
             added_date |-> table[order[k]].added_date]]

----------------------------------------------------------------------------
(* app.py: display_watchlist, lines 65-122 *)

(* f"<rupee>{x:.2f}" and the literal "Error": a currency prefix, a number, *)
(* or a word that is no number                                             *)
FormatRupee(x) == [sym |-> RUPEE, num |-> x, word |-> ""]
ErrorText == [sym |-> "", num |-> 0, word |-> "Error"]

(* stock_utils.py:49-59, in hundredths of a percent (what "%.2f" shows);   *)
(* the nan of a nan target stays nan                                       *)
calculate_percentage_difference(current_price, target_price) ==
    IF target_price = 0 THEN 0
    ELSE IF target_price = NaN THEN NaN
    ELSE (2 * Abs(current_price - target_price) * 10000 + Abs(target_price))
            \div (2 * Abs(target_price))

WithinOnePercentStrict(current_price, target_price) ==
    /\ target_price # NaN
    /\ 100 * Abs(current_price - target_price) < Abs(target_price)

WithinFivePercent(current_price, target_price) ==
    /\ target_price # NaN
    /\ 100 * Abs(current_price - target_price) <= 5 * Abs(target_price)

(* -1 <= ((current - target) / target) * 100 <= 1, lines 77, 84 and 95;    *)
(* every comparison with nan is false                                      *)
WithinOnePercent(current_price, target_price) ==
    /\ target_price # NaN
    /\ 100 * Abs(current_price - target_price) <= Abs(target_price)

BuyReachedStrict(current_price, target_price) ==
    target_price # NaN /\ current_price < target_price

(* lines 79-100; the target is not 0 here (line 77 has divided by it) *)
BuyReached(current_price, target_price) ==
    target_price # NaN /\ current_price <= target_price

SellReached(current_price, target_price) ==
    target_price # NaN /\ current_price >= target_price

Status(current_price, target_price, watchlist_type) ==
    IF watchlist_type = "buy"
    THEN IF BuyReached(current_price, target_price) THEN STATUS_REACHED
         ELSE IF WithinOnePercent(current_price, target_price) THEN STATUS_CLOSE
         ELSE STATUS_WAITING
    ELSE IF SellReached(current_price, target_price) THEN STATUS_REACHED
         ELSE IF WithinOnePercent(current_price, target_price) THEN STATUS_CLOSE
         ELSE STATUS_WAITING

StatusColor(status) ==
    IF status = STATUS_REACHED THEN "green"
    ELSE IF status = STATUS_CLOSE THEN "orange"
    ELSE "blue"

(* lines 102-111 ('Change' is left out: nothing reads it) *)
DataRow(stock, current_price, target_price, watchlist_type) ==
    LET status == Status(current_price, target_price, watchlist_type)
    IN [Symbol |-> stock.symbol,
        Current_Price |-> FormatRupee(current_price),
        Target_Price |-> FormatRupee(target_price),
        Price_Difference |->
            [num |-> calculate_percentage_difference(current_price, target_price), word |-> ""],
        Status |-> status,
        Status_Color |-> StatusColor(status),
        Added_Date |-> stock.added_date]

(* lines 113-122: target_price is the loop's local variable, not this stock's *)
ErrorRow(stock, target_price) ==
    [Symbol |-> stock.symbol,
     Current_Price |-> ErrorText,
     Target_Price |-> FormatRupee(target_price),
     Price_Difference |-> [num |-> 0, word |-> "N/A"],
     Status |-> STATUS_ERROR,
     Status_Color |-> "red",
     Added_Date |-> stock.added_date]

(* The for loop of lines 65-122 from entry i on.  local_target is the      *)
(* function's variable target_price: << >> while unbound, << t >> once     *)
(* line 72 has assigned it.  An exception ends the call.                   *)
RECURSIVE EvaluateFrom(_, _, _, _, _, _)
EvaluateFrom(watchlist, fetched, watchlist_type, i, local_target, rows) ==
    IF i > Len(watchlist) THEN [rows |-> rows, raised |-> ""]
    ELSE IF fetched[i].ok
    THEN LET target_price == watchlist[i].target_price
         IN IF target_price = 0
            THEN [rows |-> rows, raised |-> "ZeroDivisionError"]
            ELSE EvaluateFrom(watchlist, fetched, watchlist_type, i + 1, << target_price >>,
                    Append(rows, DataRow(watchlist[i], fetched[i].current_price,
                                         target_price, watchlist_type)))
    ELSE IF local_target = << >>
    THEN [rows |-> rows, raised |-> "UnboundLocalError"]
    ELSE EvaluateFrom(watchlist, fetched, watchlist_type, i + 1, local_target,
            Append(rows, ErrorRow(watchlist[i], local_target[1])))

----------------------------------------------------------------------------
(* email_utils.py: check_email_notifications, lines 106-148 *)

(* str.replace(GATE_RUPEE, '') *)
StripRupee(text) == IF text.sym = GATE_RUPEE THEN [text EXCEPT !.sym = ""] ELSE text

(* float(s) succeeds; otherwise it raises ValueError *)
IsFloat(text) == text.sym = "" /\ text.word = ""

(* f"{Symbol}_{watchlist_type}_{now:%Y-%m-%d_%H}": the hour part has a     *)
(* fixed width and the type is "buy" or "sell", so the string determines   *)
(* the three parts                                                         *)
NotificationKey(symbol, watchlist_type, now_hour) == << symbol, watchlist_type, now_hour >>

GateEligibleNotWaiting(stock_data) == stock_data.Status # STATUS_WAITING

(* line 117 *)
GateEligible(stock_data) == stock_data.Status = GATE_CLOSE

(* lines 140-142: the set after a send that returned success *)
SentAfter(sent, key, success) == IF success THEN sent \cup {key} ELSE sent

(* The for loop of lines 116-146 from row i on.  delivery[symbol] is what  *)
(* send_email_notification returns for that symbol during this call.       *)
(* calls collects the calls made of send_email_notification.               *)
RECURSIVE GateFrom(_, _, _, _, _, _, _)
GateFrom(rows, watchlist_type, now_hour, delivery, i, sent, calls) ==
    IF i > Len(rows) THEN [sent |-> sent, calls |-> calls]
    ELSE LET stock_data == rows[i]
             key == NotificationKey(stock_data.Symbol, watchlist_type, now_hour)
             current_price_str == StripRupee(stock_data.Current_Price)
             target_price_str == StripRupee(stock_data.Target_Price)
         IN IF /\ GateEligible(stock_data)
               /\ key \notin sent
               /\ IsFloat(current_price_str)
               /\ IsFloat(target_price_str)
            THEN LET success == delivery[stock_data.Symbol]
                     call == [Symbol |-> stock_data.Symbol,
                              watchlist_type |-> watchlist_type,
                              hour |-> now_hour,
                              Status |-> stock_data.Status,
                              current_price |-> current_price_str.num,
                              target_price |-> target_price_str.num,
                              success |-> success]
                 IN GateFrom(rows, watchlist_type, now_hour, delivery, i + 1,
                             SentAfter(sent, key, success), Append(calls, call))
            ELSE GateFrom(rows, watchlist_type, now_hour, delivery, i + 1, sent, calls)

check_email_notifications(rows, watchlist_type, now_hour, delivery, sent) ==
    GateFrom(rows, watchlist_type, now_hour, delivery, 1, sent, << >>)

----------------------------------------------------------------------------
(* backup_utils.py: import, lines 56-120 *)

(* A record of a backup file.  has_target is FALSE when the record carries *)
(* no target price: the key is absent (JSON) or the cell is empty (CSV).   *)
FileStocks ==
    {[symbol |-> "tcs", target_price |-> 100, has_target |-> TRUE],
     [symbol |-> "TCS", target_price |-> 0, has_target |-> TRUE],
     [symbol |-> "TCS", target_price |-> 0, has_target |-> FALSE]}

JsonFiles ==
    {f \in [buy_watchlist : SeqsUpTo(FileStocks, MaxImport),
            sell_watchlist : SeqsUpTo(FileStocks, MaxImport)] :
        Len(f.buy_watchlist) + Len(f.sell_watchlist) <= MaxImport}

CsvFiles ==
    SeqsUpTo({[stock |-> f, watchlist_type |-> t] : f \in FileStocks, t \in WatchlistTypes},
             MaxImport)

(* One of the two for loops of import_watchlists_from_json (66-76, 79-89)  *)
(* from record i on; stock['target_price'] of a record without the key     *)
(* raises KeyError                                                         *)
RECURSIVE ImportListFrom(_, _, _, _)
ImportListFrom(stocks, watchlist_type, i, acc) ==
    IF i > Len(stocks) \/ acc.raised THEN acc
    ELSE IF ~stocks[i].has_target THEN [acc EXCEPT !.raised = TRUE]
    ELSE LET r == add_stock_to_db(acc.table, stocks[i].symbol, stocks[i].target_price,
                                  watchlist_type)
         IN ImportListFrom(stocks, watchlist_type, i + 1,
                [table |-> r.table,
                 success_count |-> acc.success_count + (IF r.success THEN 1 ELSE 0),
                 error_count |-> acc.error_count + (IF r.success THEN 0 ELSE 1),
                 errors |-> IF r.success THEN acc.errors
                            ELSE Append(acc.errors, << watchlist_type, stocks[i].symbol, r.message >>),
                 raised |-> FALSE])

ImportStart(table) ==
    [table |-> table, success_count |-> 0, error_count |-> 0, errors |-> << >>, raised |-> FALSE]

(* lines 92-93 and 119-120: what the except clause returns; the table      *)
(* keeps what was committed before the exception                           *)
ImportReturn(acc) ==
    IF acc.raised
    THEN [table |-> acc.table, success_count |-> 0, error_count |-> 1,
          errors |-> << << "", "", "Error parsing" >> >>]
    ELSE [table |-> acc.table, success_count |-> acc.success_count,
          error_count |-> acc.error_count, errors |-> acc.errors]

import_watchlists_from_json(table, data) ==
    ImportReturn(
        ImportListFrom(data.sell_watchlist, "sell", 1,
            ImportListFrom(data.buy_watchlist, "buy", 1, ImportStart(table))))

(* pd.read_csv on a cell of the symbol column, line 104 *)
ReadCsvCell(text) == IF text \in NaStrings THEN NanCell ELSE text

(* The loop of import_watchlists_from_csv (106-116) from row i on, rows    *)
(* being the lines of the file; an empty target_price cell is read as nan  *)
(* and handed on                                                           *)
RECURSIVE ImportRowsFrom(_, _, _)
ImportRowsFrom(rows, i, acc) ==
    IF i > Len(rows) THEN acc
    ELSE LET row == rows[i]
             target_price == IF row.stock.has_target THEN row.stock.target_price ELSE NaN
             r == add_stock_to_db(acc.table, ReadCsvCell(row.stock.symbol), target_price,
                                  row.watchlist_type)
         IN ImportRowsFrom(rows, i + 1,
                [table |-> r.table,
                 success_count |-> acc.success_count + (IF r.success THEN 1 ELSE 0),
                 error_count |-> acc.error_count + (IF r.success THEN 0 ELSE 1),
                 errors |-> IF r.success THEN acc.errors
                            ELSE Append(acc.errors,
                                    << row.watchlist_type, row.stock.symbol, r.message >>),
                 raised |-> FALSE])

import_watchlists_from_csv(table, rows) ==
    ImportReturn(ImportRowsFrom(rows, 1, ImportStart(table)))

----------------------------------------------------------------------------
(* backup_utils.py: export, lines 9-54 *)

(* One stock dict as the file holds it: json.dumps / DataFrame.to_csv      *)
(* write the symbol as its text and the target as a number, nan as NaN     *)
(* (JSON, read back as nan) or as an empty cell (CSV)                      *)
JsonRecord(stock) ==
    [symbol |-> stock.symbol, target_price |-> stock.target_price, has_target |-> TRUE]

CsvLine(stock, watchlist_type) ==
    [stock |-> [symbol |-> stock.symbol,
                target_price |-> IF stock.target_price = NaN THEN 0 ELSE stock.target_price,
                has_target |-> stock.target_price # NaN],
     watchlist_type |-> watchlist_type]

NoFile == [buy_watchlist |-> << >>, sell_watchlist |-> << >>, rows |-> << >>]

export_watchlists_to_json(table) ==
    LET buy_stocks == get_watchlist_from_db(table, "buy")
        sell_stocks == get_watchlist_from_db(table, "sell")
    IN [data |-> [buy_watchlist |-> [k \in DOMAIN buy_stocks |-> JsonRecord(buy_stocks[k])],
                  sell_watchlist |-> [k \in DOMAIN sell_stocks |-> JsonRecord(sell_stocks[k])],
                  rows |-> << >>],
        success |-> TRUE]

export_watchlists_to_csv(table) ==
    LET buy_stocks == get_watchlist_from_db(table, "buy")
        sell_stocks == get_watchlist_from_db(table, "sell")
        all_stocks == [k \in DOMAIN buy_stocks |-> CsvLine(buy_stocks[k], "buy")]
                        \o [k \in DOMAIN sell_stocks |-> CsvLine(sell_stocks[k], "sell")]
    IN IF all_stocks = << >>
       THEN [data |-> NoFile, success |-> FALSE]          \* "No data to export", False
       ELSE [data |-> [NoFile EXCEPT !.rows = all_stocks], success |-> TRUE]

----------------------------------------------------------------------------
(* database.py: get_watchlist_stats, lines 206-235 *)

(* the body of the function: the counts of the active rows *)
CountStats(table) ==
    LET buy_count == Cardinality({i \in DOMAIN table :
                        table[i].watchlist_type = "buy" /\ table[i].is_active})
        sell_count == Cardinality({i \in DOMAIN table :
                        table[i].watchlist_type = "sell" /\ table[i].is_active})
    IN [buy_count |-> buy_count, sell_count |-> sell_count,
        total_stocks |-> buy_count + sell_count]

(* @st.cache_data(ttl=5): the cached value while the entry is alive *)
get_watchlist_stats(cache, table) ==
    IF cache.cached THEN cache.value ELSE CountStats(table)

----------------------------------------------------------------------------
(* State and operations *)

NoCycle ==
    [watchlist_type |-> "", email_enabled |-> FALSE, recipient_email |-> "None",
     raised |-> "", sent_before |-> {}, calls |-> << >>, passed_over |-> FALSE]

(* the rows hold an entry whose status is not a close-to-target label *)
HoldsOtherStatus(rows) ==
    \E i \in DOMAIN rows : rows[i].Status \in {STATUS_REACHED, STATUS_WAITING, STATUS_ERROR}

NoOp ==
    [op |-> "", symbol |-> "", watchlist_type |-> "", success |-> FALSE, message |-> "",
     success_count |-> 0, error_count |-> 0, errors |-> << >>, rows_before |-> 0]

Idle ==
    [pc |-> "idle", symbol |-> "", target_price |-> 0, watchlist_type |-> "",
     existing |-> FALSE, success |-> FALSE]

(* no export made and nothing restored from one *)
NoBackup ==
    [format |-> "", success |-> FALSE, data |-> NoFile, store |-> << >>,
     restored |-> << >>, imported |-> FALSE]

(* get_watchlist_stats not called yet: st.cache_data holds no entry *)
NoStats ==
    [cached |-> FALSE,
     value |-> [buy_count |-> 0, sell_count |-> 0, total_stocks |-> 0],
     served |-> FALSE]

Init ==
    /\ watchlists = << >>
    /\ notification_logs = << >>
    /\ email_notifications_sent = {}
    /\ hour = 0
    /\ watchlist_data = << >>
    /\ cycle = NoCycle
    /\ outbox = << >>
    /\ last_op = NoOp
    /\ adders = [p \in Sessions |-> Idle]
    /\ backup = NoBackup
    /\ stats = NoStats

StoreResult(op, symbol, watchlist_type, r) ==
    [op |-> op, symbol |-> symbol, watchlist_type |-> watchlist_type,
     success |-> r.success, message |-> r.message,
     success_count |-> 0, error_count |-> 0, errors |-> << >>,
     rows_before |-> Len(watchlists)]

ImportResult(op, r) ==
    [op |-> op, symbol |-> "", watchlist_type |-> "",
     success |-> r.success_count > 0, message |-> "",
     success_count |-> r.success_count, error_count |-> r.error_count, errors |-> r.errors,
     rows_before |-> Len(watchlists)]

(* One run of the script handles one event: a form or a button, or the    *)
(* drawing of the page.  st.rerun() (app.py:197, 263, 286,                 *)
(* backup_utils.py:197) or the next event starts the script over, and      *)
(* what the run before showed is gone.                                     *)
FreshRun == last_op = NoOp /\ cycle = NoCycle

Rerun ==
    /\ ~FreshRun
    /\ last_op' = NoOp
    /\ cycle' = NoCycle
    /\ watchlist_data' = << >>
    /\ UNCHANGED << watchlists, notification_logs, email_notifications_sent, hour, outbox,
                    adders, backup, stats >>

(* app.py:34-41 and 260-263: the add form *)
AddStock(symbol, target_price, watchlist_type) ==
    /\ FreshRun
    /\ \E r \in {add_stock_to_db(watchlists, symbol, target_price, watchlist_type)} :
       /\ Len(r.table) <= MaxRows
       /\ watchlists' = r.table
       /\ last_op' = StoreResult("add", symbol, watchlist_type, r)
       /\ UNCHANGED << notification_logs, email_notifications_sent, hour, watchlist_data,
                       cycle, outbox, adders, backup, stats >>

(* app.py:43-50 and 195-197: the remove button *)
RemoveStock(symbol, watchlist_type) ==
    /\ FreshRun
    /\ \E r \in {remove_stock_from_db(watchlists, symbol, watchlist_type)} :
       /\ watchlists' = r.table
       /\ last_op' = StoreResult("remove", symbol, watchlist_type, r)
       /\ UNCHANGED << notification_logs, email_notifications_sent, hour, watchlist_data,
                       cycle, outbox, adders, backup, stats >>

(* backup_utils.py:175-181: restore from an uploaded file *)
ImportJson(data) ==
    /\ FreshRun
    /\ \E r \in {import_watchlists_from_json(watchlists, data)} :
       /\ Len(r.table) <= MaxRows
       /\ watchlists' = r.table
       /\ last_op' = ImportResult("import_json", r)
       /\ UNCHANGED << notification_logs, email_notifications_sent, hour, watchlist_data,
                       cycle, outbox, adders, backup, stats >>

ImportCsv(rows) ==
    /\ FreshRun
    /\ \E r \in {import_watchlists_from_csv(watchlists, rows)} :
       /\ Len(r.table) <= MaxRows
       /\ watchlists' = r.table
       /\ last_op' = ImportResult("import_csv", r)
       /\ UNCHANGED << notification_logs, email_notifications_sent, hour, watchlist_data,
                       cycle, outbox, adders, backup, stats >>

(* app.py:52-137: one evaluation cycle of one dashboard page.  fetched[i]  *)
(* is what get_nse_stock_data returns for the i-th entry, delivery what    *)
(* send_email_notification returns per symbol.                             *)
DisplayWatchlist(watchlist_type, fetched, email_enabled, recipient_email, delivery) ==
    /\ FreshRun
    /\ \E loop \in {EvaluateFrom(get_watchlist_from_db(watchlists, watchlist_type), fetched,
                                 watchlist_type, 1, << >>, << >>)} :
       \E gate \in {IF email_enabled /\ recipient_email # "" /\ loop.raised = ""
                       /\ loop.rows # << >>
                    THEN check_email_notifications(loop.rows, watchlist_type, hour, delivery,
                                                   email_notifications_sent)
                    ELSE [sent |-> email_notifications_sent, calls |-> << >>]} :
          /\ Len(outbox) + Len(gate.calls) <= MaxOutbox
          /\ watchlist_data' = IF loop.raised = "" THEN loop.rows ELSE << >>
          /\ email_notifications_sent' = gate.sent
          /\ outbox' = outbox \o gate.calls
          /\ cycle' = [watchlist_type |-> watchlist_type, email_enabled |-> email_enabled,
                       recipient_email |-> recipient_email, raised |-> loop.raised,
                       sent_before |-> email_notifications_sent, calls |-> gate.calls,
                       passed_over |-> HoldsOtherStatus(loop.rows)]
          /\ UNCHANGED << watchlists, notification_logs, hour, last_op, adders, backup, stats >>

(* the wall clock passes into the next hour *)
Tick ==
    /\ hour < MaxHour
    /\ hour' = hour + 1
    /\ UNCHANGED << watchlists, notification_logs, email_notifications_sent, watchlist_data,
                    cycle, outbox, last_op, adders, backup, stats >>

(* setup_email_notifications, email_utils.py:150-171: (False, None) or     *)
(* (True, the text of the e-mail box)                                      *)
EmailSettings ==
    {[email_enabled |-> FALSE, recipient_email |-> "None"]}
        \cup {[email_enabled |-> TRUE, recipient_email |-> r] : r \in Recipients}

StoredSymbols == {Upper(s) : s \in Symbols}

(* what send_email_notification returns, per symbol, during one call; one  *)
(* value is enough where the gate is not called                            *)
Deliveries(settings) ==
    IF settings.email_enabled /\ settings.recipient_email # ""
    THEN [StoredSymbols -> BOOLEAN]
    ELSE {[s \in StoredSymbols |-> FALSE]}

Cycle ==
    /\ FreshRun
    /\ \E watchlist_type \in WatchlistTypes :
        \E fetched \in [DOMAIN get_watchlist_from_db(watchlists, watchlist_type) -> Fetches],
           settings \in EmailSettings :
            \E delivery \in Deliveries(settings) :
                DisplayWatchlist(watchlist_type, fetched, settings.email_enabled,
                                 settings.recipient_email, delivery)

Add ==
    /\ FreshRun
    /\ \E symbol \in Symbols, target_price \in Targets, watchlist_type \in WatchlistTypes :
            AddStock(symbol, target_price, watchlist_type)

Remove == FreshRun /\ \E symbol \in Symbols, watchlist_type \in WatchlistTypes :
            RemoveStock(symbol, watchlist_type)

RestoreJson == FreshRun /\ \E data \in JsonFiles : ImportJson(data)

RestoreCsv == FreshRun /\ \E rows \in CsvFiles : ImportCsv(rows)

(* backup_utils.py:137-160: the export buttons; store is the table the     *)
(* file was made from                                                      *)
ExportJson ==
    /\ FreshRun
    /\ \E r \in {export_watchlists_to_json(watchlists)} :
        backup' = [format |-> "json", success |-> r.success, data |-> r.data,
                   store |-> watchlists, restored |-> << >>, imported |-> FALSE]
    /\ UNCHANGED << watchlists, notification_logs, email_notifications_sent, hour,
                    watchlist_data, cycle, outbox, last_op, adders, stats >>

ExportCsv ==
    /\ FreshRun
    /\ \E r \in {export_watchlists_to_csv(watchlists)} :
        backup' = [format |-> "csv", success |-> r.success, data |-> r.data,
                   store |-> watchlists, restored |-> << >>, imported |-> FALSE]
    /\ UNCHANGED << watchlists, notification_logs, email_notifications_sent, hour,
                    watchlist_data, cycle, outbox, last_op, adders, stats >>

(* backup_utils.py:172-181 on a new, empty database: the downloaded file   *)
(* is uploaded and restored                                                *)
RestoreExported ==
    /\ backup.success
    /\ ~backup.imported
    /\ \E r \in {IF backup.format = "json"
                  THEN import_watchlists_from_json(<< >>, backup.data)
                  ELSE import_watchlists_from_csv(<< >>, backup.data.rows)} :
        backup' = [backup EXCEPT !.restored = r.table, !.imported = TRUE]
    /\ UNCHANGED << watchlists, notification_logs, email_notifications_sent, hour,
                    watchlist_data, cycle, outbox, last_op, adders, stats >>

AddListed ==
    /\ FreshRun
    /\ \E symbol \in BackupSymbols, target_price \in Targets, watchlist_type \in WatchlistTypes :
            AddStock(symbol, target_price, watchlist_type)

(* app.py:238: the sidebar asks for the statistics *)
ShowStats ==
    /\ stats' = [cached |-> TRUE,
                 value |-> get_watchlist_stats(stats, watchlists),
                 served |-> ~stats.served]
    /\ UNCHANGED << watchlists, notification_logs, email_notifications_sent, hour,
                    watchlist_data, cycle, outbox, last_op, adders, backup >>

(* five seconds after the entry was made the cache drops it *)
CacheExpires ==
    /\ stats.cached
    /\ stats' = [stats EXCEPT !.cached = FALSE]
    /\ UNCHANGED << watchlists, notification_logs, email_notifications_sent, hour,
                    watchlist_data, cycle, outbox, last_op, adders, backup >>

(* The dashboard: entries are added and the pages are evaluated *)
Next == Add \/ Cycle \/ Rerun \/ Tick

Spec == Init /\ [][Next]_vars

(* The watchlist store: add, remove and restore, one call after another *)
NextStore == Add \/ Remove \/ RestoreJson \/ RestoreCsv \/ Rerun

SpecStore == Init /\ [][NextStore]_vars

(* Backup and restore: a store is built, exported and restored elsewhere *)
NextBackup == AddListed \/ Remove \/ ExportJson \/ ExportCsv \/ RestoreExported \/ Rerun

SpecBackup == Init /\ [][NextBackup]_vars

(* The sidebar statistics beside add and remove *)
NextStats == Add \/ Remove \/ ShowStats \/ CacheExpires \/ Rerun

SpecStats == Init /\ [][NextStats]_vars

----------------------------------------------------------------------------
(* check_email_notifications called on its own, with rows in the spelling *)
(* display_watchlist writes and in the spelling the gate itself reads      *)

ShownRow(symbol, current_price, watchlist_type) ==
    DataRow([symbol |-> symbol, added_date |-> 1], current_price, 100, watchlist_type)

GateSpelling(row) ==
    [row EXCEPT !.Current_Price.sym = GATE_RUPEE, !.Target_Price.sym = GATE_RUPEE]

GateRows ==
    { ShownRow("TCS", 100, "buy"),                                   \* target reached
      ShownRow("TCS", 101, "buy"),                                   \* close to target
      ShownRow("TCS", 203, "buy"),                                   \* waiting
      ErrorRow([symbol |-> "TCS", added_date |-> 1], 100),
      GateSpelling(ShownRow("TCS", 100, "buy")),
      [ShownRow("TCS", 101, "buy") EXCEPT !.Status = GATE_CLOSE],
      GateSpelling([ShownRow("TCS", 101, "buy") EXCEPT !.Status = GATE_CLOSE]),
      GateSpelling([ShownRow("TCS.NS", 101, "buy") EXCEPT !.Status = GATE_CLOSE]) }

GateCall(rows, watchlist_type, delivery) ==
    \E gate \in {check_email_notifications(rows, watchlist_type, hour, delivery,
                                           email_notifications_sent)} :
       /\ Len(outbox) + Len(gate.calls) <= MaxOutbox
       /\ email_notifications_sent' = gate.sent
       /\ outbox' = outbox \o gate.calls
       /\ cycle' = [NoCycle EXCEPT !.passed_over = HoldsOtherStatus(rows)]
       /\ UNCHANGED << watchlists, notification_logs, hour, watchlist_data, last_op, adders, backup, stats >>

Gate ==
    \E rows \in SeqsUpTo(GateRows, MaxGateRows) \ {<< >>}, watchlist_type \in WatchlistTypes,
       delivery \in [StoredSymbols -> BOOLEAN] :
        GateCall(rows, watchlist_type, delivery)

NextGate == Gate \/ Tick

SpecGate == Init /\ [][NextGate]_vars

----------------------------------------------------------------------------
(* Two sessions in add_stock_to_db at once: the query of lines 63-68 and   *)
(* the insert of lines 75-83 are separate statements, and the table has no *)
(* unique constraint (lines 14-23)                                         *)

AddBegin(p, symbol, target_price, watchlist_type) ==
    /\ adders[p].pc \in {"idle", "done"}
    /\ adders' = [adders EXCEPT ![p] =
                    [pc |-> "checked", symbol |-> symbol, target_price |-> target_price,
                     watchlist_type |-> watchlist_type,
                     existing |-> AddExisting(watchlists, symbol, watchlist_type),
                     success |-> FALSE]]
    /\ UNCHANGED << watchlists, notification_logs, email_notifications_sent, hour,
                    watchlist_data, cycle, outbox, last_op, backup, stats >>

AddFinish(p) ==
    /\ adders[p].pc = "checked"
    /\ IF adders[p].existing
       THEN /\ adders' = [adders EXCEPT ![p].pc = "done", ![p].success = FALSE]
            /\ UNCHANGED watchlists
       ELSE /\ Len(watchlists) < MaxRows
            /\ watchlists' = Append(watchlists,
                                NewStock(watchlists, adders[p].symbol, adders[p].target_price,
                                         adders[p].watchlist_type))
            /\ adders' = [adders EXCEPT ![p].pc = "done", ![p].success = TRUE]
    /\ UNCHANGED << notification_logs, email_notifications_sent, hour, watchlist_data,
                    cycle, outbox, last_op, backup, stats >>

Begin == \E p \in Sessions, symbol \in Symbols, target_price \in Targets,
            watchlist_type \in WatchlistTypes :
                AddBegin(p, symbol, target_price, watchlist_type)

Finish == \E p \in Sessions : AddFinish(p)

NextRace == Begin \/ Finish

SpecRace == Init /\ [][NextRace]_vars

----------------------------------------------------------------------------
(* Properties *)

(* the rows of the last page that carry a fetched price *)
Priced == {i \in DOMAIN watchlist_data : watchlist_data[i].Current_Price.word = ""}

Current(i) == watchlist_data[i].Current_Price.num
Target(i) == watchlist_data[i].Target_Price.num

NotReached(i) ==
    \/ cycle.watchlist_type = "buy" /\ Current(i) > Target(i)
    \/ cycle.watchlist_type = "sell" /\ Current(i) < Target(i)

(* C1: an entry whose fetched price equals its target price is shown as   *)
(* TARGET REACHED, on the buy page and on the sell page.                   *)
ExactTargetIsReached ==
    \A i \in Priced :
        (Target(i) > 0 /\ Current(i) = Target(i)) => watchlist_data[i].Status = STATUS_REACHED

ExactTargetOnSellPage ==
    /\ cycle.watchlist_type = "sell"
    /\ \E i \in Priced : Current(i) = Target(i) /\ watchlist_data[i].Status = STATUS_REACHED

(* C2: an entry whose target is not reached and whose price is within one  *)
(* percent of the target, the bounds included, is shown as CLOSE TO TARGET. *)
CloseBandIsClose ==
    \A i \in Priced :
        (/\ Target(i) > 0
         /\ NotReached(i)
         /\ -Target(i) <= 100 * (Current(i) - Target(i))
         /\ 100 * (Current(i) - Target(i)) <= Target(i))
            => watchlist_data[i].Status = STATUS_CLOSE

OnePercentAboveBuyTarget ==
    /\ cycle.watchlist_type = "buy"
    /\ \E i \in Priced :
        /\ 100 * (Current(i) - Target(i)) = Target(i)
        /\ watchlist_data[i].Status = STATUS_CLOSE

(* C3: an entry whose target is not reached and whose price is more than   *)
(* one percent away from the target is shown as WAITING, and a priced      *)
(* entry has one of the three statuses.                                    *)
OutsideBandIsWaiting ==
    \A i \in Priced :
        /\ watchlist_data[i].Status \in {STATUS_REACHED, STATUS_CLOSE, STATUS_WAITING}
        /\ (/\ Target(i) > 0
            /\ NotReached(i)
            /\ \/ 100 * (Current(i) - Target(i)) > Target(i)
               \/ 100 * (Current(i) - Target(i)) < -Target(i))
                => watchlist_data[i].Status = STATUS_WAITING

JustOutsideBandWaits ==
    /\ cycle.watchlist_type = "buy"
    /\ \E i \in Priced :
        /\ 100 * (Current(i) - Target(i)) > Target(i)
        /\ 100 * (Current(i) - Target(i)) <= 2 * Target(i)
        /\ watchlist_data[i].Status = STATUS_WAITING

SameKey(a, b) ==
    a.Symbol = b.Symbol /\ a.watchlist_type = b.watchlist_type /\ a.hour = b.hour

OnlyCloseToTargetSends ==
    \A i \in DOMAIN outbox : outbox[i].Status \in {STATUS_CLOSE, GATE_CLOSE}

SentBesideOtherStatus == outbox # << >> /\ cycle.passed_over

(* C7: a page run with e-mail alerts on and a recipient given calls        *)
(* send_email_notification for every row it shows as CLOSE TO TARGET whose  *)
(* key is not in the sent log.                                             *)
CloseEntryFiresGate ==
    (cycle.email_enabled /\ cycle.recipient_email # "") =>
        \A i \in DOMAIN watchlist_data :
            (/\ watchlist_data[i].Status = STATUS_CLOSE
             /\ NotificationKey(watchlist_data[i].Symbol, cycle.watchlist_type, hour)
                    \notin cycle.sent_before)
                => \E j \in DOMAIN cycle.calls :
                        cycle.calls[j].Symbol = watchlist_data[i].Symbol

UniqueActivePerPair ==
    \A i, j \in DOMAIN watchlists :
        (/\ i # j
         /\ watchlists[i].is_active
         /\ watchlists[j].is_active
         /\ watchlists[i].symbol = watchlists[j].symbol)
            => watchlists[i].watchlist_type # watchlists[j].watchlist_type

ReaddedAfterRemove ==
    \E i, j \in DOMAIN watchlists :
        /\ i < j
        /\ watchlists[i].symbol = watchlists[j].symbol
        /\ watchlists[i].watchlist_type = watchlists[j].watchlist_type
        /\ ~watchlists[i].is_active
        /\ watchlists[j].is_active

(* C10: of two add calls for one symbol and watchlist type that run at     *)
(* the same time at most one succeeds, and the table then holds at most    *)
(* one active row for the pair.                                            *)
ConcurrentAddsExclusive ==
    \A p, q \in Sessions :
        (/\ p # q
         /\ adders[p].pc = "done"
         /\ adders[q].pc = "done"
         /\ Upper(adders[p].symbol) = Upper(adders[q].symbol)
         /\ adders[p].watchlist_type = adders[q].watchlist_type)
            => /\ ~(adders[p].success /\ adders[q].success)
               /\ Cardinality({i \in DOMAIN watchlists :
                        /\ watchlists[i].symbol = Upper(adders[p].symbol)
                        /\ watchlists[i].watchlist_type = adders[p].watchlist_type
                        /\ watchlists[i].is_active}) <= 1

(* an active row of the table for this stored symbol and type *)
ActiveRows(table, symbol, watchlist_type) ==
    {i \in DOMAIN table :
        /\ table[i].symbol = symbol
        /\ table[i].watchlist_type = watchlist_type
        /\ table[i].is_active}

(* C11: an add for a symbol and type that has an active row returns the   *)
(* "already exists" failure and leaves every row of the table as it was.   *)
DuplicateAddChangesNothing ==
    [][(/\ last_op'.op = "add"
        /\ last_op.op = ""
        /\ ActiveRows(watchlists, Upper(last_op'.symbol), last_op'.watchlist_type) # {})
            => (/\ watchlists' = watchlists
                /\ ~last_op'.success
                /\ last_op'.message = "already exists")]_vars

DuplicateAddRejected ==
    /\ last_op.op = "add"
    /\ ~last_op.success
    /\ last_op.message = "already exists"
    /\ \E i \in ActiveRows(watchlists, Upper(last_op.symbol), last_op.watchlist_type) :
            watchlists[i].target_price \in Targets

(* C12: once remove has succeeded for a symbol and type, the removed row   *)
(* is in the table as inactive, and an add for the same symbol and type    *)
(* succeeds and appends one active row, the other rows staying as they are. *)
AddAfterRemoveSucceeds ==
    (last_op.op = "remove" /\ last_op.success) =>
        /\ \E i \in DOMAIN watchlists :
                /\ watchlists[i].symbol = last_op.symbol
                /\ watchlists[i].watchlist_type = last_op.watchlist_type
                /\ ~watchlists[i].is_active
        /\ \A target_price \in Targets :
            LET r == add_stock_to_db(watchlists, last_op.symbol, target_price,
                                     last_op.watchlist_type)
            IN /\ r.success
               /\ Len(r.table) = Len(watchlists) + 1
               /\ \A i \in DOMAIN watchlists : r.table[i] = watchlists[i]
               /\ r.table[Len(r.table)].symbol = last_op.symbol
               /\ r.table[Len(r.table)].watchlist_type = last_op.watchlist_type
               /\ r.table[Len(r.table)].target_price = target_price
               /\ r.table[Len(r.table)].is_active

AddedAgainAfterRemove ==
    /\ last_op.op = "add"
    /\ last_op.success
    /\ Len(watchlists) = 2
    /\ watchlists[2].is_active
    /\ ~watchlists[1].is_active
    /\ watchlists[1].symbol = watchlists[2].symbol
    /\ watchlists[1].watchlist_type = watchlists[2].watchlist_type

(* get_nse_stock_data, stock_utils.py:14-15: the symbol with the market    *)
(* suffix                                                                  *)
WithSuffix(symbol) == IF symbol = "TCS" THEN "TCS.NS" ELSE symbol

(* C13: inputs that differ only in letter case or in the .NS suffix are    *)
(* one key: the table never holds two active rows of one type whose        *)
(* symbols are the same once upper-cased and given the suffix.             *)
OneActiveRowPerCanonicalSymbol ==
    \A i, j \in DOMAIN watchlists :
        (/\ i # j
         /\ watchlists[i].is_active
         /\ watchlists[j].is_active
         /\ watchlists[i].watchlist_type = watchlists[j].watchlist_type)
            => WithSuffix(Upper(watchlists[i].symbol)) # WithSuffix(Upper(watchlists[j].symbol))

(* C14: a page evaluation ends without an exception and gives one row per  *)
(* entry of the watchlist, in the order of the list, whichever fetches     *)
(* fail.                                                                   *)
CycleGivesOneRowPerEntry ==
    (cycle.watchlist_type # "") =>
        LET watchlist == get_watchlist_from_db(watchlists, cycle.watchlist_type)
        IN /\ cycle.raised = ""
           /\ Len(watchlist_data) = Len(watchlist)
           /\ \A k \in DOMAIN watchlist_data : watchlist_data[k].Symbol = watchlist[k].symbol

(* C15: an import returns as its success count the number of rows the      *)
(* table gained, reports one message per failure, and stores no record     *)
(* that lacks a target price.                                              *)
ImportCountsMatchStore ==
    (last_op.op \in {"import_json", "import_csv"}) =>
        /\ last_op.success_count = Len(watchlists) - last_op.rows_before
        /\ last_op.error_count = Len(last_op.errors)
        /\ \A i \in DOMAIN watchlists :
                i > last_op.rows_before => watchlists[i].target_price # NaN

(* C19: for each type get_watchlist_from_db returns the active rows of     *)
(* that type, each once and no other row, newest added_date first.         *)
ListIsActiveNewestFirst ==
    \A watchlist_type \in WatchlistTypes :
        LET list == get_watchlist_from_db(watchlists, watchlist_type)
        IN /\ \A k \in DOMAIN list :
                \E i \in DOMAIN watchlists :
                    /\ watchlists[i].id = list[k].id
                    /\ watchlists[i].is_active
                    /\ watchlists[i].watchlist_type = watchlist_type
                    /\ watchlists[i].symbol = list[k].symbol
                    /\ watchlists[i].target_price = list[k].target_price
                    /\ watchlists[i].added_date = list[k].added_date
           /\ \A i \in DOMAIN watchlists :
                (watchlists[i].is_active /\ watchlists[i].watchlist_type = watchlist_type)
                    => \E k \in DOMAIN list : list[k].id = watchlists[i].id
           /\ \A k, m \in DOMAIN list :
                (k < m) => (list[k].id # list[m].id /\ list[k].added_date >= list[m].added_date)

TwoListedBesideOthers ==
    \E watchlist_type \in WatchlistTypes :
        /\ Len(get_watchlist_from_db(watchlists, watchlist_type)) = 2
        /\ get_watchlist_from_db(watchlists, watchlist_type)[1].added_date
                > get_watchlist_from_db(watchlists, watchlist_type)[2].added_date

(* C20: every row of the table has a target price above 0.                 *)
EveryTargetPositive ==
    \A i \in DOMAIN watchlists : watchlists[i].target_price > 0

(* the active entries of a table as (symbol, target price, type) triples *)
Triples(table) ==
    {<< table[i].symbol, table[i].target_price, table[i].watchlist_type >> :
        i \in {j \in DOMAIN table : table[j].is_active}}

(* C16: a store restored into an empty database from an export has the     *)
(* active (symbol, target price, type) triples of the exported store.      *)
RoundTripKeepsTriples ==
    backup.imported => Triples(backup.restored) = Triples(backup.store)

(* C17: an export reports success, also when no entry is active.           *)
ExportAlwaysSucceeds ==
    (backup.format # "") => backup.success

(* C18: get_watchlist_stats returns the counts of the rows that are active *)
(* when it is called, and their sum as the total.                          *)
StatsAreCurrent ==
    [][(stats'.served # stats.served) =>
            /\ stats'.value = CountStats(watchlists)
            /\ stats'.value.total_stocks = stats'.value.buy_count + stats'.value.sell_count]_vars

(* C21: no step deletes a row, reactivates an inactive row, or changes a   *)
(* row's id, symbol, target price, type or added date.                     *)
RowsOnlyDeactivate ==
    [][/\ Len(watchlists') >= Len(watchlists)
       /\ \A i \in DOMAIN watchlists :
            /\ watchlists'[i].id = watchlists[i].id
            /\ watchlists'[i].symbol = watchlists[i].symbol
            /\ watchlists'[i].target_price = watchlists[i].target_price
            /\ watchlists'[i].watchlist_type = watchlists[i].watchlist_type
            /\ watchlists'[i].added_date = watchlists[i].added_date
            /\ watchlists'[i].is_active => watchlists[i].is_active]_vars

RemovedRowKept ==
    /\ last_op.op = "remove"
    /\ last_op.success
    /\ Len(watchlists) = last_op.rows_before
    /\ \E i \in DOMAIN watchlists :
            /\ watchlists[i].symbol = last_op.symbol
            /\ watchlists[i].watchlist_type = last_op.watchlist_type
            /\ ~watchlists[i].is_active

(* C22: the price difference shown for a priced entry is signed: above 0   *)
(* when the price is above the target, below 0 when it is below.           *)
PriceDifferenceIsSigned ==
    \A i \in Priced :
        /\ (Current(i) > Target(i)) => watchlist_data[i].Price_Difference.num > 0
        /\ (Current(i) < Target(i)) => watchlist_data[i].Price_Difference.num < 0

(* C23: a remove called with a symbol whose upper-cased form has an active *)
(* row of the type succeeds and leaves no such row active.                 *)
RemoveFindsWhatAddStored ==
    [][(/\ last_op'.op = "remove"
        /\ last_op.op = ""
        /\ ActiveRows(watchlists, Upper(last_op'.symbol), last_op'.watchlist_type) # {})
            => (/\ last_op'.success
                /\ ActiveRows(watchlists', Upper(last_op'.symbol),
                              last_op'.watchlist_type) = {})]_vars

(* C24: the row of an entry whose fetch failed has status ERROR and shows  *)
(* the target price of that entry.                                         *)
ErrorRowShowsOwnTarget ==
    (cycle.watchlist_type # "" /\ cycle.raised = "") =>
        LET watchlist == get_watchlist_from_db(watchlists, cycle.watchlist_type)
        IN \A k \in DOMAIN watchlist_data :
                (watchlist_data[k].Current_Price.word = "Error")
                    => /\ watchlist_data[k].Status = STATUS_ERROR
                       /\ watchlist_data[k].Target_Price.num = watchlist[k].target_price

(* C25: the success count an import returns is the number of rows the      *)
(* call appended to the table.                                             *)
SuccessCountIsRowsAdded ==
    (last_op.op \in {"import_json", "import_csv"}) =>
        Len(watchlists) = last_op.rows_before + last_op.success_count

====
